---- MODULE Spec2Model ----
(***************************************************************************)
(* Model of netlify/functions/deepseek-polish.js: the handler that polishes *)
(* a dictated report through the DeepSeek chat-completions API.            *)
(*                                                                         *)
(* A JavaScript string is a sequence of units.  A unit is one character    *)
(* (" ", "a", "{", a double quote, ...) or a fixed word that the model      *)
(* never has to look inside ("findings", "Missing text", ...).  Trimming,  *)
(* JSON parsing and JSON serialisation work on these sequences.            *)
(*                                                                         *)
(* A JavaScript value is a record tagged by its type in field t.           *)
(***************************************************************************)
EXTENDS Integers, Sequences, FiniteSets, TLC

VARIABLES pc, event, env, text, calls, resp, payload, content, parsed, e, response

vars == <<pc, event, env, text, calls, resp, payload, content, parsed, e, response>>

-----------------------------------------------------------------------------
(* Bounds of the enumerated inputs. *)

\* longest dictated text / report field drawn for a request or a reply
MaxFieldLen == 2
\* longest free-form (brute-force) upstream content string
MaxProseLen == 3

-----------------------------------------------------------------------------
(* JavaScript values *)

Undefined == [t |-> "undefined"]
Null == [t |-> "null"]
Bool(b) == [t |-> "boolean", v |-> b]
\* a number is kept as its decimal digits, which is also its string form
Num(digits) == [t |-> "number", v |-> digits]
Str(s) == [t |-> "string", v |-> s]
Arr(elems) == [t |-> "array", v |-> elems]
\* an object is the sequence of its members in insertion order
Obj(members) == [t |-> "object", v |-> members]
Member(k, val) == [k |-> k, val |-> val]

Quote == "\""
Backslash == "\\"
WhiteSpace == {" ", "\n"}
Digits == {"0", "5"}

\* ToBoolean: what `x || y` and `!x` test
Truthy(x) ==
  CASE x.t = "undefined" -> FALSE
    [] x.t = "null" -> FALSE
    [] x.t = "boolean" -> x.v
    [] x.t = "number" -> x.v # <<"0">>
    [] x.t = "string" -> x.v # <<>>
    [] OTHER -> TRUE

\* a || b
Or(a, b) == IF Truthy(a) THEN a ELSE b

\* the last member named k wins, as in JSON.parse and object literals
RECURSIVE Lookup(_, _, _)
Lookup(members, k, i) ==
  IF i = 0 THEN Undefined
  ELSE IF members[i].k = k THEN members[i].val
  ELSE Lookup(members, k, i - 1)

HasOwn(x, k) == x.t = "object" /\ \E i \in 1..Len(x.v) : x.v[i].k = k

\* x.k for a value that is neither null nor undefined
Get(x, k) == IF x.t = "object" THEN Lookup(x.v, k, Len(x.v)) ELSE Undefined

\* x.k throws a TypeError on null and undefined
Nullish(x) == x.t \in {"undefined", "null"}

\* x?.k
OptGet(x, k) == IF Nullish(x) THEN Undefined ELSE Get(x, k)

\* x?.[0]
OptFirst(x) ==
  IF Nullish(x) THEN Undefined
  ELSE IF x.t = "array" /\ Len(x.v) >= 1 THEN x.v[1]
  ELSE IF x.t = "string" /\ Len(x.v) >= 1 THEN Str(<<x.v[1]>>)
  ELSE Undefined

-----------------------------------------------------------------------------
(* String.prototype.trim *)

RECURSIVE TrimStart(_)
TrimStart(s) ==
  IF s # <<>> /\ Head(s) \in WhiteSpace THEN TrimStart(Tail(s)) ELSE s

RECURSIVE TrimEnd(_)
TrimEnd(s) ==
  IF s # <<>> /\ s[Len(s)] \in WhiteSpace
  THEN TrimEnd(SubSeq(s, 1, Len(s) - 1))
  ELSE s

Trim(s) == TrimEnd(TrimStart(s))

-----------------------------------------------------------------------------
(* x.toString() and String(x) for a value that is not null or undefined.   *)
(* The result is [ok, v]: ok is FALSE when a TypeError is thrown, which    *)
(* happens for an object whose own "toString" member shadows the method    *)
(* (a parsed JSON member is never callable).                               *)

Threw == [ok |-> FALSE, v |-> <<>>]
Gave(s) == [ok |-> TRUE, v |-> s]

RECURSIVE JSToString(_)
RECURSIVE Join(_, _)
Join(elems, i) ==
  IF i > Len(elems) THEN Gave(<<>>)
  ELSE LET el == elems[i]
           one == IF Nullish(el) THEN Gave(<<>>) ELSE JSToString(el)
           rest == Join(elems, i + 1)
       IN IF ~one.ok \/ ~rest.ok THEN Threw
          ELSE Gave(one.v \o (IF i < Len(elems) THEN <<",">> ELSE <<>>) \o rest.v)

JSToString(x) ==
  CASE x.t = "string" -> Gave(x.v)
    [] x.t = "number" -> Gave(x.v)
    [] x.t = "boolean" -> Gave(IF x.v THEN <<"true">> ELSE <<"false">>)
    [] x.t = "null" -> Gave(<<"null">>)
    [] x.t = "undefined" -> Gave(<<"undefined">>)
    [] x.t = "array" -> Join(x.v, 1)
    [] x.t = "object" ->
         IF HasOwn(x, <<"toString">>) THEN Threw ELSE Gave(<<"[object Object]">>)

-----------------------------------------------------------------------------
(* JSON.parse.  Each parser returns [ok, val, next]: next is the position  *)
(* after what was read.                                                    *)

Fail == [ok |-> FALSE, val |-> Undefined, next |-> 0]
Read(val, next) == [ok |-> TRUE, val |-> val, next |-> next]

RECURSIVE SkipWs(_, _)
SkipWs(s, i) ==
  IF i <= Len(s) /\ s[i] \in WhiteSpace THEN SkipWs(s, i + 1) ELSE i

\* the number of backslashes that end just before position p, from i on
BackslashRun(s, i, p) ==
  CHOOSE k \in 0..(p - i) :
    /\ \A q \in (p - k)..(p - 1) : s[q] = Backslash
    /\ k = p - i \/ s[p - k - 1] # Backslash

\* position p starts an escape: a backslash that is not itself escaped
Escaping(s, i, p) == s[p] = Backslash /\ BackslashRun(s, i, p) % 2 = 0

\* position p is the character that an escape names
Escaped(s, i, p) == p > i /\ Escaping(s, i, p - 1)

\* the characters that s[lo..hi] stands for, inside a literal that starts at i
RECURSIVE Unescape(_, _, _, _)
Unescape(s, i, lo, hi) ==
  IF lo > hi THEN <<>>
  ELSE IF lo = hi
  THEN (IF Escaping(s, i, lo) THEN <<>>
        ELSE IF Escaped(s, i, lo) /\ s[lo] = "n" THEN <<"\n">>
        ELSE <<s[lo]>>)
  ELSE Unescape(s, i, lo, (lo + hi) \div 2) \o Unescape(s, i, (lo + hi) \div 2 + 1, hi)

\* the literal's characters are s[i..j-1]: no raw line break, known escapes only
CharsAllowed(s, i, j) ==
  \A p \in i..(j - 1) :
    /\ s[p] # "\n"
    /\ Escaped(s, i, p) => s[p] \in {Quote, Backslash, "n"}

\* without a backslash the literal stands for its own characters
CharsUpTo(s, i, j) ==
  IF \A p \in i..(j - 1) : s[p] \notin {Backslash, "\n"}
  THEN Read(Str(SubSeq(s, i, j - 1)), j + 1)
  ELSE IF CharsAllowed(s, i, j) THEN Read(Str(Unescape(s, i, i, j - 1)), j + 1)
  ELSE Fail

\* the quote at j is not escaped: it closes a literal that starts at i
ClosingAt(s, i, j) == s[j] = Quote /\ ~Escaped(s, i, j)

\* the characters of a string literal, from the position after its opening
\* quote up to the first quote that closes it
ParseChars(s, i) ==
  IF \E j \in i..Len(s) : ClosingAt(s, i, j)
  THEN CharsUpTo(s, i, CHOOSE j \in i..Len(s) :
                         ClosingAt(s, i, j) /\ \A q \in i..(j - 1) : ~ClosingAt(s, i, q))
  ELSE Fail

RECURSIVE ParseDigits(_, _, _)
ParseDigits(s, i, acc) ==
  IF i <= Len(s) /\ s[i] \in Digits
  THEN ParseDigits(s, i + 1, Append(acc, s[i]))
  ELSE Read(Num(acc), i)

\* no leading zero: "0" is a number on its own
ParseNumber(s, i) ==
  IF s[i] = "0" THEN Read(Num(<<"0">>), i + 1) ELSE ParseDigits(s, i, <<>>)

RECURSIVE ParseValue(_, _)
RECURSIVE ParseElements(_, _, _)
RECURSIVE ParseMembers(_, _, _)

\* after an element at el: "," and more elements, or "]"
ElementsAfter(s, j, el, acc) ==
  IF j > Len(s) THEN Fail
  ELSE IF s[j] = "]" THEN Read(Arr(Append(acc, el.val)), j + 1)
  ELSE IF s[j] = "," THEN ParseElements(s, j + 1, Append(acc, el.val))
  ELSE Fail

ElementRead(s, el, acc) ==
  IF ~el.ok THEN Fail ELSE ElementsAfter(s, SkipWs(s, el.next), el, acc)

\* after "[" or ",": a value, then "," or "]"
ParseElements(s, i, acc) == ElementRead(s, ParseValue(s, i), acc)

\* after a member: "," and more members, or "}"
MembersAfter(s, j, acc) ==
  IF j > Len(s) THEN Fail
  ELSE IF s[j] = "}" THEN Read(Obj(acc), j + 1)
  ELSE IF s[j] = "," THEN ParseMembers(s, j + 1, acc)
  ELSE Fail

MemberValueRead(s, key, val, acc) ==
  IF ~val.ok THEN Fail
  ELSE MembersAfter(s, SkipWs(s, val.next), Append(acc, Member(key.val.v, val.val)))

MemberColon(s, c, key, acc) ==
  IF c <= Len(s) /\ s[c] = ":"
  THEN MemberValueRead(s, key, ParseValue(s, c + 1), acc)
  ELSE Fail

MemberKeyRead(s, key, acc) ==
  IF ~key.ok THEN Fail ELSE MemberColon(s, SkipWs(s, key.next), key, acc)

MemberKey(s, k, acc) ==
  IF k <= Len(s) /\ s[k] = Quote
  THEN MemberKeyRead(s, ParseChars(s, k + 1), acc)
  ELSE Fail

\* after "{" or ",": "key" : value, then "," or "}"
ParseMembers(s, i, acc) == MemberKey(s, SkipWs(s, i), acc)

\* "{" at i, with j the first position after it that is no white space
ParseObject(s, i, j) ==
  IF j <= Len(s) /\ s[j] = "}" THEN Read(Obj(<<>>), j + 1)
  ELSE ParseMembers(s, i + 1, <<>>)

\* "[" at i, with j the first position after it that is no white space
ParseArray(s, i, j) ==
  IF j <= Len(s) /\ s[j] = "]" THEN Read(Arr(<<>>), j + 1)
  ELSE ParseElements(s, i + 1, <<>>)

\* the value that starts at i, which is no white space
ValueAt(s, i) ==
  IF i > Len(s) THEN Fail
  ELSE CASE s[i] = "{" -> ParseObject(s, i, SkipWs(s, i + 1))
         [] s[i] = "[" -> ParseArray(s, i, SkipWs(s, i + 1))
         [] s[i] = Quote -> ParseChars(s, i + 1)
         [] s[i] = "null" -> Read(Null, i + 1)
         [] s[i] = "true" -> Read(Bool(TRUE), i + 1)
         [] s[i] = "false" -> Read(Bool(FALSE), i + 1)
         [] s[i] \in Digits -> ParseNumber(s, i)
         [] OTHER -> Fail

ParseValue(s, i) == ValueAt(s, SkipWs(s, i))

\* the whole text must be one value, white space around it allowed
Complete(s, r) ==
  IF r.ok /\ SkipWs(s, r.next) = Len(s) + 1
  THEN [ok |-> TRUE, val |-> r.val]
  ELSE [ok |-> FALSE, val |-> Undefined]

\* JSON.parse(s) of a string: [ok, val]; ok is FALSE for a SyntaxError
JSONParse(s) == Complete(s, ParseValue(s, 1))

-----------------------------------------------------------------------------
(* JSON.stringify *)

\* s[lo..hi] with quote, backslash and line break escaped
RECURSIVE EscapeRange(_, _, _)
EscapeRange(s, lo, hi) ==
  IF lo > hi THEN <<>>
  ELSE IF lo = hi
  THEN (IF s[lo] \in {Quote, Backslash} THEN <<Backslash, s[lo]>>
        ELSE IF s[lo] = "\n" THEN <<Backslash, "n">>
        ELSE <<s[lo]>>)
  ELSE EscapeRange(s, lo, (lo + hi) \div 2) \o EscapeRange(s, (lo + hi) \div 2 + 1, hi)

\* a string without such characters is its own escaped form
Escape(s) ==
  IF \A p \in 1..Len(s) : s[p] \notin {Quote, Backslash, "\n"} THEN s
  ELSE EscapeRange(s, 1, Len(s))

Literal(s) == <<Quote>> \o Escape(s) \o <<Quote>>

RECURSIVE JSONStringify(_)
RECURSIVE StringifyElements(_, _)
RECURSIVE StringifyMembers(_, _, _)

StringifyElements(elems, i) ==
  IF i > Len(elems) THEN <<>>
  ELSE (IF elems[i].t = "undefined" THEN <<"null">> ELSE JSONStringify(elems[i]))
       \o (IF i < Len(elems) THEN <<",">> ELSE <<>>)
       \o StringifyElements(elems, i + 1)

\* members whose value is undefined are left out
StringifyMembers(members, i, first) ==
  IF i > Len(members) THEN <<>>
  ELSE IF members[i].val.t = "undefined" THEN StringifyMembers(members, i + 1, first)
  ELSE (IF first THEN <<>> ELSE <<",">>)
       \o Literal(members[i].k) \o <<":">> \o JSONStringify(members[i].val)
       \o StringifyMembers(members, i + 1, FALSE)

JSONStringify(x) ==
  CASE x.t = "string" -> Literal(x.v)
    [] x.t = "number" -> x.v
    [] x.t = "boolean" -> IF x.v THEN <<"true">> ELSE <<"false">>
    [] x.t = "null" -> <<"null">>
    [] x.t = "array" -> <<"[">> \o StringifyElements(x.v, 1) \o <<"]">>
    [] x.t = "object" -> <<"{">> \o StringifyMembers(x.v, 1, TRUE) \o <<"}">>

-----------------------------------------------------------------------------
(* The handler.  An async function runs from one suspension point to the   *)
(* next; each such run ends in an outcome: it returns a response, throws,  *)
(* or awaits.                                                              *)

NoResponse == [statusCode |-> 0, headers |-> <<>>, body |-> <<>>]
NoError == [t |-> "none", name |-> "", message |-> ""]
NoRequest == [url |-> <<>>, method |-> "", headers |-> <<>>, body |-> <<>>]

Error(name, message) == [t |-> "error", name |-> name, message |-> message]

\* String(e) of an Error
StringOfError(err) == <<err.name, ": ", err.message>>

Return(r) == [kind |-> "return", response |-> r, e |-> NoError]
Throw(err) == [kind |-> "throw", response |-> NoResponse, e |-> err]

corsHeaders ==
  ("Access-Control-Allow-Origin" :> "*")
  @@ ("Access-Control-Allow-Headers" :> "Content-Type, Authorization")
  @@ ("Access-Control-Allow-Methods" :> "POST, OPTIONS")

\* the spread of corsHeaders left out
JsonHeadersOnly == "Content-Type" :> "application/json"

\* { ...corsHeaders, "Content-Type": "application/json" }
JsonHeaders == ("Content-Type" :> "application/json") @@ corsHeaders

JsonResponse(status, obj) ==
  [statusCode |-> status, headers |-> JsonHeaders, body |-> JSONStringify(obj)]

ErrorObject(msg) == Obj(<<Member(<<"error">>, Str(<<msg>>))>>)

ErrorDetails(msg, details) ==
  Obj(<<Member(<<"error">>, Str(<<msg>>)), Member(<<"details">>, Str(details))>>)

\* the two tests of the method in the other order
MethodGatePostFirst(ev) ==
  IF ev.httpMethod # "POST"
  THEN JsonResponse(405, ErrorObject("Method Not Allowed"))
  ELSE IF ev.httpMethod = "OPTIONS"
  THEN [statusCode |-> 204, headers |-> corsHeaders, body |-> <<>>]
  ELSE NoResponse

\* the method gate: the response it returns, or NoResponse to go on
MethodGate(ev) ==
  IF ev.httpMethod = "OPTIONS"
  THEN [statusCode |-> 204, headers |-> corsHeaders, body |-> <<>>]
  ELSE IF ev.httpMethod # "POST"
  THEN JsonResponse(405, ErrorObject("Method Not Allowed"))
  ELSE NoResponse

\* event.body ? JSON.parse(event.body) : {}
ParseBody(ev) ==
  IF Truthy(ev.body) THEN JSONParse(ev.body.v) ELSE [ok |-> TRUE, val |-> Obj(<<>>)]

\* text, patient and template of the parsed body, given the string forms
ReadFields(body, t, tpl) ==
  IF ~t.ok \/ ~tpl.ok
  THEN [e |-> Error("TypeError", "toString is not a function")]
  ELSE [e |-> NoError,
        text |-> Trim(t.v),
        patient |-> Or(Get(body, <<"patient">>), Obj(<<>>)),
        template |-> tpl.v]

ReadParsed(b) ==
  IF ~b.ok THEN [e |-> Error("SyntaxError", "Unexpected token")]
  ELSE IF Nullish(b.val)
  THEN [e |-> Error("TypeError", "Cannot read properties of null")]
  ELSE ReadFields(b.val,
                  JSToString(Or(Get(b.val, <<"text">>), Str(<<>>))),
                  JSToString(Or(Get(b.val, <<"template">>), Str(<<>>))))

\* the locals body, text, patient, template, or the exception thrown on the way
ReadInput(ev) == ReadParsed(ParseBody(ev))

\* `${patient[k] || ""}`
PatientField(patient, k) == JSToString(Or(Get(patient, k), Str(<<>>)))

PromptText(txt, template, name, id, date) ==
  IF ~name.ok \/ ~id.ok \/ ~date.ok THEN Threw
  ELSE Gave(<<"Rewrite and polish this dictated dental radiology report text.", "\n",
              "- Keep the medical meaning.", "\n",
              "- Fix grammar, spelling, and structure.", "\n",
              "- If the text is short/fragmented, complete it into a professional report.", "\n",
              "- Output JSON ONLY in this schema:", "\n",
              "{ ", Quote, "findings", Quote, ": ", Quote, "...", Quote, ", ",
              Quote, "impression", Quote, ": ", Quote, "...", Quote, " }", "\n",
              "\n",
              "Template: ">> \o (IF template # <<>> THEN template ELSE <<"N/A">>) \o
            <<"\n", "Patient: ">> \o name.v \o <<" | ID: ">> \o id.v
            \o <<" | Date: ">> \o date.v \o
            <<"\n", "\n", "Raw text:", "\n">> \o txt)

\* the user message, or a TypeError when a patient field has no string form
UserPrompt(txt, patient, template) ==
  PromptText(txt, template, PatientField(patient, <<"name">>),
             PatientField(patient, <<"id">>), PatientField(patient, <<"date">>))

SystemPrompt ==
  <<"You are a radiology report editor. Return ONLY valid JSON with keys: findings, impression. Keep the same language as the input.">>

EnvOr(x, default) == IF Truthy(x) THEN x.v ELSE default

\* the arguments of fetch
UpstreamRequest(environment, user) ==
  [url |-> EnvOr(environment.DEEPSEEK_BASE_URL, <<"https://api.deepseek.com">>)
           \o <<"/v1/chat/completions">>,
   method |-> "POST",
   headers |-> ("Content-Type" :> <<"application/json">>)
               @@ ("Authorization" :> <<"Bearer ">> \o environment.DEEPSEEK_API_KEY.v),
   body |-> JSONStringify(Obj(<<
     Member(<<"model">>, Str(EnvOr(environment.DEEPSEEK_MODEL, <<"deepseek-chat">>))),
     Member(<<"messages">>, Arr(<<
       Obj(<<Member(<<"role">>, Str(<<"system">>)), Member(<<"content">>, Str(SystemPrompt))>>),
       Obj(<<Member(<<"role">>, Str(<<"user">>)), Member(<<"content">>, Str(user))>>)>>)),
     Member(<<"temperature">>, Num(<<"0", ".", "2">>))>>))]

Await(txt, request) ==
  [kind |-> "await", response |-> NoResponse, e |-> NoError, text |-> txt, request |-> request]

\* const resp = await fetch(...)
IssueFetch(environment, in, user) ==
  IF ~user.ok THEN Throw(Error("TypeError", "Cannot convert object to primitive value"))
  ELSE Await(in.text, UpstreamRequest(environment, user.v))

\* the check of the text left out
ValidateKeyOnly(environment, in) ==
  IF in.e.t = "error" THEN Throw(in.e)
  ELSE IF ~Truthy(environment.DEEPSEEK_API_KEY)
  THEN Return(JsonResponse(500, ErrorObject("Server missing DEEPSEEK_API_KEY")))
  ELSE IssueFetch(environment, in, UserPrompt(in.text, in.patient, in.template))

\* the checks of the text and of the API key
Validate(environment, in) ==
  IF in.e.t = "error" THEN Throw(in.e)
  ELSE IF in.text = <<>> THEN Return(JsonResponse(400, ErrorObject("Missing text")))
  ELSE IF ~Truthy(environment.DEEPSEEK_API_KEY)
  THEN Return(JsonResponse(500, ErrorObject("Server missing DEEPSEEK_API_KEY")))
  ELSE IssueFetch(environment, in, UserPrompt(in.text, in.patient, in.template))

\* the try block up to the call of fetch
TryToFetch(ev, environment) == Validate(environment, ReadInput(ev))

\* no catch block: what the try block throws leaves the handler
CatchNothing(out) == out

\* catch (e) { return 500 "Server exception" }
Catch(out) ==
  IF out.kind = "throw"
  THEN [kind |-> "return",
        response |-> JsonResponse(500, ErrorDetails("Server exception", StringOfError(out.e))),
        e |-> out.e]
  ELSE out

\* data?.choices?.[0]?.message?.content || ""
Content(data) ==
  Or(OptGet(OptGet(OptFirst(OptGet(data, <<"choices">>)), <<"message">>), <<"content">>),
     Str(<<>>))

\* catch { parsed = { findings: text, impression: "" } }
FallbackToText(c, txt) ==
  Obj(<<Member(<<"findings">>, Str(txt)),
        Member(<<"impression">>, Str(<<>>))>>)

\* catch { parsed = { findings: content || text, impression: "" } }
Fallback(c, txt) ==
  Obj(<<Member(<<"findings">>, Or(c, Str(txt))),
        Member(<<"impression">>, Str(<<>>))>>)

ParsedOr(r, c, txt) == IF r.ok THEN r.val ELSE Fallback(c, txt)

\* JSON.parse of the string form; the argument having none is a TypeError
ParseStringForm(s) == IF s.ok THEN JSONParse(s.v) ELSE [ok |-> FALSE, val |-> Undefined]

\* try { parsed = JSON.parse(content) } catch { ... }
ParseContent(c, txt) ==
  ParsedOr(ParseStringForm(JSToString(c)), c, txt)

TrimForm(s) == IF s.ok THEN Gave(Trim(s.v)) ELSE Threw

\* (parsed[upper] || parsed[lower] || "").toString().trim()
FieldUpperFirst(p, lower, upper) ==
  TrimForm(JSToString(Or(Or(Get(p, upper), Get(p, lower)), Str(<<>>))))

\* (parsed[lower] || parsed[upper] || "").toString().trim()
Field(p, lower, upper) ==
  TrimForm(JSToString(Or(Or(Get(p, lower), Get(p, upper)), Str(<<>>))))

\* out as the 200 response, without line 107
ReportNoFallback(findings, impression, txt) ==
  IF ~findings.ok \/ ~impression.ok
  THEN Throw(Error("TypeError", "toString is not a function"))
  ELSE Return(JsonResponse(200, Obj(<<
         Member(<<"findings">>, Str(findings.v)),
         Member(<<"impression">>, Str(impression.v))>>)))

\* out, with findings replaced by text when empty, as the 200 response
Report(findings, impression, txt) ==
  IF ~findings.ok \/ ~impression.ok
  THEN Throw(Error("TypeError", "toString is not a function"))
  ELSE Return(JsonResponse(200, Obj(<<
         Member(<<"findings">>, Str(IF findings.v = <<>> THEN txt ELSE findings.v)),
         Member(<<"impression">>, Str(impression.v))>>)))

NormaliseParsed(p, txt) ==
  IF Nullish(p) THEN Throw(Error("TypeError", "Cannot read properties of null"))
  ELSE Report(Field(p, <<"findings">>, <<"FINDINGS">>),
              Field(p, <<"impression">>, <<"IMPRESSION">>), txt)

\* from the upstream reply to the 200 response
Normalise(data, txt) == NormaliseParsed(ParseContent(Content(data), txt), txt)

\* details: errText.trim()
UpstreamFailureTrimmed(errText) ==
  Return(JsonResponse(502, ErrorDetails("DeepSeek error", Trim(errText))))

\* if (!resp.ok) after resp.text() gave errText
UpstreamFailure(errText) ==
  Return(JsonResponse(502, ErrorDetails("DeepSeek error", errText)))

-----------------------------------------------------------------------------
(* The inputs: requests, configurations and upstream behaviours.           *)

\* every string over the alphabet up to the length
Strings(alphabet, n) == UNION {[1..k -> alphabet] : k \in 0..n}

RECURSIVE JoinTexts(_, _)
JoinTexts(texts, i) ==
  IF i > Len(texts) THEN <<>>
  ELSE texts[i] \o (IF i < Len(texts) THEN <<",">> ELSE <<>>) \o JoinTexts(texts, i + 1)

\* JSON text of an object, from the JSON texts of its members
ObjectText(members) == <<"{">> \o JoinTexts(members, 1) \o <<"}">>
MemberText(k, valueText) == Literal(<<k>>) \o <<":">> \o valueText
\* a member that may be absent: valueText <<>> stands for "no such member"
Optional(k, valueText) == IF valueText = <<>> THEN <<>> ELSE <<MemberText(k, valueText)>>

ToStringObject == ObjectText(<<MemberText("toString", <<"5">>)>>)

\* JSON texts of the values a text or findings member is drawn from
FieldStrings == Strings({" ", "a"}, MaxFieldLen)
OddTexts ==
  {<<"null">>, <<"0">>, <<"5">>, <<"true">>, <<"[", "]">>,
   <<"[", Quote, " ", Quote, "]">>, <<"{", "}">>, ToStringObject}
FieldTexts == {Literal(s) : s \in FieldStrings} \cup OddTexts

Methods == {"OPTIONS", "POST", "GET", "post"}

\* event.body: absent, empty, malformed, not an object, or an object
BodyTexts ==
  {<<>>, <<"{">>, <<"a">>, <<"null">>, <<"5">>, <<Quote, "a", Quote>>, <<"{", "}">>}
  \cup {ObjectText(<<MemberText("text", t)>>) : t \in FieldTexts}
  \cup {<<" ">> \o ObjectText(<<MemberText("text", Literal(<<"a">>))>>) \o <<"\n">>}
  \cup {ObjectText(<<MemberText("text", t), MemberText("template", tpl)>>) :
          t \in {Literal(<<>>), Literal(<<"a">>)},
          tpl \in {Literal(<<"t">>), <<"5">>, ToStringObject}}
  \cup {ObjectText(<<MemberText("text", Literal(<<"a">>)), MemberText("patient", p)>>) :
          p \in {<<"5">>,
                 ObjectText(<<MemberText("name", Literal(<<"n">>)), MemberText("id", <<"5">>)>>),
                 ObjectText(<<MemberText("date", ToStringObject)>>)}}

Events == [httpMethod : Methods, body : {Undefined} \cup {Str(b) : b \in BodyTexts}]

\* process.env
Environments ==
  {[DEEPSEEK_API_KEY |-> k, DEEPSEEK_BASE_URL |-> Undefined, DEEPSEEK_MODEL |-> Undefined] :
     k \in {Undefined, Str(<<>>), Str(<<"k">>)}}
  \cup {[DEEPSEEK_API_KEY |-> Str(<<"k">>), DEEPSEEK_BASE_URL |-> Str(<<"https://proxy">>),
         DEEPSEEK_MODEL |-> Str(<<"m">>)]}

\* the status of the upstream response; resp.ok is a status from 200 to 299
UpstreamStatuses == {200, 429, 500}
RespOk(status) == status >= 200 /\ status <= 299

\* the body of a failed upstream response
ErrorTexts ==
  {<<>>, <<"rate limited">>, <<" ", Quote, "a", Backslash, "\n">>,
   ObjectText(<<MemberText("findings", Literal(<<"a">>))>>)}

\* choices[0].message.content as free text
ProseAlphabet == {" ", "a", "null", Quote}
ProseContents == Strings(ProseAlphabet, MaxProseLen)

\* choices[0].message.content as the JSON text of a report
ImpressionMembers ==
  {<<>>,
   <<MemberText("impression", Literal(<<" ", "b">>))>>,
   <<MemberText("impression", Literal(<<>>)), MemberText("IMPRESSION", Literal(<<"B">>))>>,
   <<MemberText("impression", ToStringObject)>>}
ReportContents ==
  {ObjectText(Optional("findings", f) \o Optional("FINDINGS", u) \o i) :
     f \in FieldTexts \cup {<<>>},
     u \in {<<>>, Literal(<<>>), Literal(<<" ">>), Literal(<<"A", " ">>)},
     i \in ImpressionMembers}
  \cup {ObjectText(Optional("FINDINGS", u) \o Optional("findings", f)) :
     u \in FieldTexts, f \in {<<>>, Literal(<<>>), Literal(<<"a">>)}}
  \cup {<<" ">> \o ObjectText(<<MemberText("Findings", Literal(<<"a">>))>>) \o <<" ">>}

\* the JSON text of a reply whose choices[0].message.content has this JSON text
ReplyWith(contentText) ==
  ObjectText(<<MemberText("choices",
    <<"[">> \o ObjectText(<<MemberText("message",
       ObjectText(<<MemberText("content", contentText)>>))>>) \o <<"]">>)>>)

\* the body of a successful upstream response
ReplyTexts ==
  {ReplyWith(Literal(c)) : c \in ProseContents \cup ReportContents}
  \cup {ReplyWith(c) : c \in OddTexts \cup {<<"[", Quote, "null", Quote, "]">>}}
  \cup {<<>>, <<"<html>">>, <<"null">>, <<"5">>, <<Quote, "a", Quote>>, <<"{", "}">>,
        ObjectText(<<MemberText("choices", <<"null">>)>>),
        ObjectText(<<MemberText("choices", <<"[", "]">>)>>),
        ObjectText(<<MemberText("choices", <<"[", "null", "]">>)>>),
        ObjectText(<<MemberText("choices", <<Quote, "a", Quote>>)>>),
        ObjectText(<<MemberText("choices", <<"[", "{", "}", "]">>)>>),
        ObjectText(<<MemberText("choices",
          <<"[">> \o ObjectText(<<MemberText("message", <<"null">>)>>) \o <<"]">>)>>)}

-----------------------------------------------------------------------------
(* The state machine of one invocation.                                    *)
(* pc: "start" before the call; "fetch", "text", "json" while suspended at *)
(* await fetch(...), await resp.text(), await resp.json(); "done" once the *)
(* handler has returned; "rejected" if an exception left the handler.      *)

NoResp == [state |-> "none", status |-> 0]
\* a local that is not assigned yet
Unassigned == [t |-> "unassigned"]
NoPayload == [state |-> "none", body |-> <<>>]

Init ==
  /\ pc = "start"
  /\ event \in Events
  /\ env \in Environments
  /\ text = <<>>
  /\ calls = <<>>
  /\ resp = NoResp
  /\ payload = NoPayload
  /\ content = Unassigned
  /\ parsed = Unassigned
  /\ e = NoError
  /\ response = NoResponse

\* the handler returns or throws: its promise settles
Settle(out) ==
  /\ pc' = IF out.kind = "return" THEN "done" ELSE "rejected"
  /\ response' = out.response
  /\ e' = out.e

EnterTry(gate, ev, environment) ==
  IF gate.statusCode # 0 THEN Return(gate) ELSE Catch(TryToFetch(ev, environment))

\* from the call of the handler to its first return or await
Enter(ev, environment) == EnterTry(MethodGate(ev), ev, environment)

\* the local text once it is assigned
TextOfInput(gate, in) ==
  IF gate.statusCode = 0 /\ in.e.t = "none" THEN in.text ELSE <<>>

TextOf(ev) == TextOfInput(MethodGate(ev), ReadInput(ev))

\* fetch called a second time with the same arguments
SuspendTwice(out) ==
  IF out.kind = "await"
  THEN /\ pc' = "fetch"
       /\ calls' = calls \o <<out.request, out.request>>
       /\ UNCHANGED <<response, e>>
  ELSE /\ Settle(out)
       /\ UNCHANGED calls

\* the first run of the handler: it awaits fetch, returns or throws
Suspend(out) ==
  IF out.kind = "await"
  THEN /\ pc' = "fetch"
       /\ calls' = Append(calls, out.request)
       /\ UNCHANGED <<response, e>>
  ELSE /\ Settle(out)
       /\ UNCHANGED calls

Invoke ==
  /\ pc = "start"
  /\ Suspend(Enter(event, env))
  /\ text' = TextOf(event)
  /\ UNCHANGED <<event, env, resp, payload, content, parsed>>

\* the network call fails: fetch rejects
FetchRejects ==
  /\ pc = "fetch"
  /\ resp' = [state |-> "rejected", status |-> 0]
  /\ Settle(Catch(Throw(Error("TypeError", "fetch failed"))))
  /\ UNCHANGED <<event, env, text, calls, payload, content, parsed>>

\* the response head arrives; the handler goes on to read the body
FetchFulfils ==
  /\ pc = "fetch"
  /\ \E status \in UpstreamStatuses :
       /\ resp' = [state |-> "fulfilled", status |-> status]
       /\ pc' = IF ~RespOk(status) THEN "text" ELSE "json"
  /\ UNCHANGED <<event, env, text, calls, payload, content, parsed, e, response>>

\* the body stream breaks while resp.text() reads it
TextRejects ==
  /\ pc = "text"
  /\ payload' = [state |-> "rejected", body |-> <<>>]
  /\ Settle(Catch(Throw(Error("TypeError", "terminated"))))
  /\ UNCHANGED <<event, env, text, calls, resp, content, parsed>>

TextFulfils ==
  /\ pc = "text"
  /\ \E errText \in ErrorTexts :
       /\ payload' = [state |-> "read", body |-> errText]
       /\ Settle(Catch(UpstreamFailure(errText)))
  /\ UNCHANGED <<event, env, text, calls, resp, content, parsed>>

\* the body stream breaks while resp.json() reads it
JsonRejects ==
  /\ pc = "json"
  /\ payload' = [state |-> "rejected", body |-> <<>>]
  /\ Settle(Catch(Throw(Error("TypeError", "terminated"))))
  /\ UNCHANGED <<event, env, text, calls, resp, content, parsed>>

JsonRead(data, txt) ==
  IF ~data.ok THEN Throw(Error("SyntaxError", "Unexpected token"))
  ELSE Normalise(data.val, txt)

\* resp.json() of a body that was read: its JSON.parse, then the normalisation
AfterJson(body, txt) == JsonRead(JSONParse(body), txt)

\* the locals content and parsed, which are assigned once data is
AssignLocals(data, txt) ==
  IF data.ok
  THEN /\ content' = Content(data.val)
       /\ parsed' = ParseContent(Content(data.val), txt)
  ELSE UNCHANGED <<content, parsed>>

JsonFulfils ==
  /\ pc = "json"
  /\ \E body \in ReplyTexts :
       /\ payload' = [state |-> "read", body |-> body]
       /\ AssignLocals(JSONParse(body), text)
       /\ Settle(Catch(AfterJson(body, text)))
  /\ UNCHANGED <<event, env, text, calls, resp>>

Next ==
  \/ Invoke
  \/ FetchRejects
  \/ FetchFulfils
  \/ TextRejects
  \/ TextFulfils
  \/ JsonRejects
  \/ JsonFulfils

Spec == Init /\ [][Next]_vars

-----------------------------------------------------------------------------
(* What a client reads from the response.                                  *)

Done == pc = "done"

\* the response body parsed as JSON
Reply == JSONParse(response.body)

\* a top-level member of the response body
Replied(k) == Get(Reply.val, <<k>>)
HasField(k) == Reply.ok /\ HasOwn(Reply.val, <<k>>)
IsString(x, s) == x.t = "string" /\ x.v = s

IsError(status, msg) ==
  /\ response.statusCode = status
  /\ response.headers = JsonHeaders
  /\ IsString(Replied("error"), <<msg>>)

HasCors(headers) ==
  /\ {"Access-Control-Allow-Origin", "Access-Control-Allow-Headers",
      "Access-Control-Allow-Methods"} \subseteq DOMAIN headers
  /\ headers["Access-Control-Allow-Origin"] = "*"
  /\ headers["Access-Control-Allow-Headers"] = "Content-Type, Authorization"
  /\ headers["Access-Control-Allow-Methods"] = "POST, OPTIONS"

\* the upstream reply that resp.json() read, and its choices[0].message.content || ""
ReplyRead == payload.state = "read" /\ resp.state = "fulfilled" /\ RespOk(resp.status)

\* the upstream call succeeded and gave a reply whose content is a string
\* (an absent or falsy content counts as the empty string)
StringContent == Done /\ text # <<>> /\ ReplyRead /\ content.t = "string"

-----------------------------------------------------------------------------
\* C1: whenever the request text is non-empty after trimming, no response
\* carries an empty findings field, whatever the upstream did: every 200
\* response has a findings string that is not empty, and a response that is
\* not a 200 (upstream failure, network failure, exception) has no findings
\* field at all.
FindingsNeverEmpty ==
  (Done /\ text # <<>>) =>
    /\ response.statusCode = 200 => HasField("findings")
    /\ HasField("findings") =>
         /\ Replied("findings").t = "string"
         /\ Trim(Replied("findings").v) # <<>>

\* the content is valid JSON that is not an object (the string " "), so the
\* report has no findings of its own and the text stands in
FindingsFellBack ==
  /\ Done /\ text # <<>>
  /\ payload.body = ReplyWith(Literal(<<Quote, " ", Quote>>))
  /\ response.statusCode = 200
  /\ IsString(Replied("findings"), text)

-----------------------------------------------------------------------------
\* C2: no exception leaves the handler.  Every invocation that ends, ends
\* with one response whose status is 204, 405, 400, 500, 502 or 200 and
\* whose body is empty (204) or a JSON object; an exception thrown while
\* parsing the request body, calling upstream, or reading and normalising
\* the reply gives 500 {error: "Server exception", details: String(e)}.
WellFormed(r) ==
  /\ r.statusCode \in {204, 405, 400, 500, 502, 200}
  /\ HasCors(r.headers)
  /\ IF r.statusCode = 204 THEN r.body = <<>>
     ELSE JSONParse(r.body).ok /\ JSONParse(r.body).val.t = "object"

ServerException ==
  /\ e.t = "error"
  /\ IsError(500, "Server exception")
  /\ IsString(Replied("details"), StringOfError(e))

MalformedBody ==
  event.httpMethod = "POST" /\ Truthy(event.body) /\ ~JSONParse(event.body.v).ok

NoErrorEscapes ==
  /\ pc \in {"start", "fetch", "text", "json", "done"}
  /\ ~Done => response = NoResponse /\ e = NoError
  /\ Done =>
       /\ WellFormed(response)
       /\ e.t = "error" => ServerException
       /\ MalformedBody => ServerException
       /\ resp.state = "rejected" => ServerException
       /\ payload.state = "rejected" => ServerException
       /\ (ReplyRead /\ ~JSONParse(payload.body).ok) => ServerException
       /\ ~ENABLED Next

\* the reply has an unexpected shape: its content is the JSON null
ExceptionCaught ==
  /\ Done
  /\ payload.body = ReplyWith(Literal(<<"null">>))
  /\ e.name = "TypeError"
  /\ ServerException

-----------------------------------------------------------------------------
\* C3: for a POST, validation comes before the configuration check: when
\* the trimmed string form of body.text is empty the response is
\* 400 {error: "Missing text"} whether or not the key is set, and when it is
\* not empty and the key is absent the response is 500 with the message
\* "Server missing DEEPSEEK_API_KEY", never "Server exception".
TextForm(b) == JSToString(Or(Get(b.val, <<"text">>), Str(<<>>)))

\* body.text has a string form: the body parses, is not null, text coerces
TextCoerces ==
  /\ event.httpMethod = "POST"
  /\ ParseBody(event).ok
  /\ ~Nullish(ParseBody(event).val)
  /\ TextForm(ParseBody(event)).ok

CoercedText == Trim(TextForm(ParseBody(event)).v)

ValidationBeforeConfiguration ==
  (Done /\ TextCoerces) =>
    /\ CoercedText = <<>> => IsError(400, "Missing text")
    /\ (CoercedText # <<>> /\ ~Truthy(env.DEEPSEEK_API_KEY)) =>
         IsError(500, "Server missing DEEPSEEK_API_KEY")

-----------------------------------------------------------------------------
\* C4 as stated: when the upstream call succeeds and the content is not
\* parsable as JSON, the response is 200 with findings equal to the raw
\* content trimmed, or to the original text if the content is empty, and
\* impression empty; also for whitespace-only content.
Unparsable == StringContent /\ ~JSONParse(content.v).ok

RawContentTrimmed ==
  Unparsable =>
    /\ response.statusCode = 200
    /\ IsString(Replied("findings"),
                IF content.v = <<>> THEN text ELSE Trim(content.v))
    /\ IsString(Replied("impression"), <<>>)

\* C4 amended: when the upstream call succeeds and the content is a string
\* that is not parsable as JSON, the response is 200 with findings equal to
\* the raw content trimmed, or to the original trimmed text if the content is
\* empty or only white space, and impression empty.
RawContentTrimmedOrText ==
  Unparsable =>
    /\ response.statusCode = 200
    /\ IsString(Replied("findings"),
                IF Trim(content.v) = <<>> THEN text ELSE Trim(content.v))
    /\ IsString(Replied("impression"), <<>>)

\* prose with white space around it came back trimmed
ProseTrimmed ==
  /\ Unparsable
  /\ content.v = <<" ", "a", " ">>
  /\ text = <<"a", "a">>
  /\ IsString(Replied("findings"), <<"a">>)

-----------------------------------------------------------------------------
\* C5 as stated: when the upstream call succeeds and the content is valid
\* JSON with a non-empty findings field (key findings or FINDINGS, lowercase
\* first), the response is 200 and its findings is that field trimmed; also
\* when the field is only white space.

\* parsed.findings || parsed.FINDINGS: the lowercase member unless it is
\* missing or falsy
FindingsMember ==
  Or(Get(parsed, <<"findings">>), Get(parsed, <<"FINDINGS">>))

ImpressionMember ==
  Or(Get(parsed, <<"impression">>), Get(parsed, <<"IMPRESSION">>))

HasFindings ==
  /\ StringContent /\ JSONParse(content.v).ok /\ parsed.t = "object"
  /\ FindingsMember.t = "string" /\ FindingsMember.v # <<>>
  /\ ImpressionMember.t \in {"undefined", "string"}

FindingsFieldTrimmed ==
  HasFindings =>
    /\ response.statusCode = 200
    /\ IsString(Replied("findings"), Trim(FindingsMember.v))

\* C5 amended: when the upstream call succeeds and the content is a JSON
\* object whose findings member (findings, or FINDINGS when findings is
\* missing, empty or otherwise falsy) is a non-empty string and whose
\* impression member, if any, is a string, the response is 200 and its
\* findings is that member trimmed, or the original trimmed text when the
\* member is only white space.
FindingsFieldTrimmedOrText ==
  HasFindings =>
    /\ response.statusCode = 200
    /\ IsString(Replied("findings"),
                IF Trim(FindingsMember.v) = <<>> THEN text ELSE Trim(FindingsMember.v))

\* both spellings are present and the lowercase one is taken, trimmed
LowercaseFirst ==
  /\ HasFindings
  /\ IsString(Get(parsed, <<"findings">>), <<" ", "a">>)
  /\ IsString(Get(parsed, <<"FINDINGS">>), <<"A", " ">>)
  /\ IsString(Replied("findings"), <<"a">>)
  /\ text = <<"a", "a">>

-----------------------------------------------------------------------------
\* C6 as stated: whenever the upstream status indicates failure the handler
\* responds 502 {error: "DeepSeek error", details: <upstream body text>},
\* never 200, and makes no second upstream call.
UpstreamFailed == Done /\ resp.state = "fulfilled" /\ ~RespOk(resp.status)

BadGateway ==
  /\ IsError(502, "DeepSeek error")
  /\ IsString(Replied("details"), payload.body)
  /\ ~HasField("findings")
  /\ ~HasField("impression")

AlwaysBadGateway == UpstreamFailed => (BadGateway /\ Len(calls) = 1)

\* C6 amended: whenever the upstream status indicates failure and the body
\* text of the upstream response has been read, the handler responds 502
\* {error: "DeepSeek error", details: <that text, verbatim>}; if reading the
\* body fails it responds 500 "Server exception"; in both cases never 200,
\* never a report, and no second upstream call.
BadGatewayOnceRead ==
  UpstreamFailed =>
    /\ Len(calls) = 1
    /\ response.statusCode # 200
    /\ payload.state = "read" => BadGateway
    /\ payload.state = "rejected" => ServerException

\* the error body is JSON with a findings member and is passed on as text
ErrorPassedOn ==
  /\ UpstreamFailed
  /\ payload.state = "read"
  /\ payload.body = ObjectText(<<MemberText("findings", Literal(<<"a">>))>>)
  /\ BadGateway

-----------------------------------------------------------------------------
\* C7: every response carries the three CORS headers, and every response
\* but the 204 of OPTIONS also carries Content-Type: application/json.
HeadersOnEveryPath ==
  Done =>
    /\ HasCors(response.headers)
    /\ IF response.statusCode = 204
       THEN DOMAIN response.headers = DOMAIN corsHeaders
       ELSE /\ "Content-Type" \in DOMAIN response.headers
            /\ response.headers["Content-Type"] = "application/json"
            /\ DOMAIN response.headers = DOMAIN corsHeaders \cup {"Content-Type"}

\* the exception path, after a failed network call
HeadersOnException ==
  /\ Done
  /\ resp.state = "rejected"
  /\ response.statusCode = 500
  /\ HasCors(response.headers)
  /\ response.headers["Content-Type"] = "application/json"

-----------------------------------------------------------------------------
\* C8: the method gate comes first and does not depend on the body or the
\* configuration: OPTIONS gives exactly 204 with an empty body, the three
\* CORS headers and no Content-Type; a method other than POST and OPTIONS
\* gives 405 {error: "Method Not Allowed"}; neither looks at the body, and
\* only a POST gets past the gate.
MethodGateFirst ==
  /\ (pc # "start" /\ event.httpMethod = "OPTIONS") =>
       /\ Done
       /\ response = [statusCode |-> 204, headers |-> corsHeaders, body |-> <<>>]
       /\ "Content-Type" \notin DOMAIN response.headers
       /\ HasCors(response.headers)
  /\ (pc # "start" /\ event.httpMethod \notin {"OPTIONS", "POST"}) =>
       /\ Done
       /\ IsError(405, "Method Not Allowed")
       /\ DOMAIN Reply.val.v = {1}
  /\ (pc # "start" /\ event.httpMethod # "POST") => (e = NoError /\ calls = <<>>)

\* a GET with a malformed body and no API key
GetRejected ==
  /\ Done
  /\ event.httpMethod = "GET"
  /\ event.body = Str(<<"{">>)
  /\ ~Truthy(env.DEEPSEEK_API_KEY)
  /\ IsError(405, "Method Not Allowed")

-----------------------------------------------------------------------------
Suspended == pc \in {"fetch", "text", "json"}

-----------------------------------------------------------------------------
\* C10: the upstream call, which carries the bearer credential, is issued
\* at most once and only after the method is POST, the body has parsed, the
\* trimmed text is non-empty and the API key is present; a 204, 405, 400 or
\* missing-key 500 response is never preceded by a call, and a 502 or 200
\* response is preceded by exactly one.
CallOnlyAfterChecks ==
  /\ Len(calls) <= 1
  /\ calls # <<>> =>
       /\ event.httpMethod = "POST"
       /\ TextCoerces
       /\ CoercedText # <<>>
       /\ text = CoercedText
       /\ Truthy(env.DEEPSEEK_API_KEY)
       /\ calls[1].headers["Authorization"] = <<"Bearer ">> \o env.DEEPSEEK_API_KEY.v
  /\ (Done /\ response.statusCode \in {204, 405, 400}) => calls = <<>>
  /\ (Done /\ IsError(500, "Server missing DEEPSEEK_API_KEY")) => calls = <<>>
  /\ (Done /\ response.statusCode \in {502, 200}) => Len(calls) = 1

\* a report was returned after the one call
ReportAfterOneCall ==
  /\ Done
  /\ response.statusCode = 200
  /\ Len(calls) = 1
  /\ calls[1].headers["Authorization"] = <<"Bearer ", "k">>

====
